---- MODULE Spec2Model ----
(***************************************************************************)
(* Request quota ledger of oldmusaserver: src/src/web/quota.rs (the ledger *)
(* `Data`, the facade `AppData`, the actor `QuotaControlActor`), the       *)
(* per-request budget of src/src/web/graphql_service.rs and the request    *)
(* context of src/src/web/graphql_schema.rs.                               *)
(*                                                                         *)
(* Instants and durations are integers, in milliseconds.  An i64 is an     *)
(* integer of I64Bits bits (two's complement); a u128/i128 intermediate    *)
(* is an unbounded integer.                                                *)
(***************************************************************************)
EXTENDS Integers, Sequences, FiniteSets, TLC

\* ---------------------------------------------------------------- bounds
MaxTime == 2000
TickMs == 500
I64Bits == 16
MaxSpends == 1
MaxMailbox == 1
MaxDebt == 10

\* ------------------------------------------------------ program constants
REQ_COINS_MODIFIER_DB_QUERY == 10
REQ_COINS_MODIFIER_LOGIN == 300
MillisPerSec == 1000
RescheduleMarginMs == 1000

\* ------------------------------------------------------------ input sets
UserIds == {1, 2}
AdminIds == {1}
Requests == {1, 2}
MaxBalances == {20}
Rates == {0, 21}
NoUser == 0

VARIABLES
    max_balance,        \* Data.max_balance
    balance_per_second, \* Data.balance_per_second
    users,              \* Data.users: HashMap<IdType, UserData>
    next_expiration,    \* Data.next_expiration: PriorityQueue<IdType, Reverse<Instant>>
    poisoned,           \* the Mutex is poisoned: a holder panicked
    saturating,         \* the build's Instant::duration_since saturates (else it panics)
    clock,              \* Instant::now()
    mailbox,            \* QuotaUpdateMessages queued at the actor
    next_run,           \* QuotaControlActor.next_run: the handle's deadline, or {}
    timers,             \* wakes pending in the actor's context (notify_later)
    sched_pc,           \* the actor's position: "idle" or inside update
    sched_now,          \* `now` of the running update
    req,                \* the in-flight requests (graphql handler + Context)
    hist,               \* per user, the last ledger call made for it (history)
    rearmed             \* how the last reschedule_after moved the wake (history)

vars == <<max_balance, balance_per_second, users, next_expiration, poisoned,
          saturating, clock, mailbox, next_run, timers, sched_pc, sched_now, req, hist,
          rearmed>>

\* ------------------------------------------------------------- integers
I64Max == 2^(I64Bits - 1) - 1
I64Min == 0 - 2^(I64Bits - 1)

\* `x as i64`: the low I64Bits bits of x, read as two's complement
AsI64(x) == ((x - I64Min) % 2^I64Bits) + I64Min

Min(a, b) == IF a <= b THEN a ELSE b

\* ------------------------------------------------------------ the ledger
Insert(f, k, v) == [x \in (DOMAIN f) \cup {k} |-> IF x = k THEN v ELSE f[x]]
Remove(f, k) == [x \in (DOMAIN f) \ {k} |-> f[x]]
EmptyMap == [x \in {} |-> 0]

\* mutant: the elapsed time is cut to whole seconds before it earns coins
get_accumulated_balance_secs(passed, bps) == (passed \div MillisPerSec) * bps

get_accumulated_balance(passed, bps) == (passed * bps) \div MillisPerSec

get_balance_wait(bal, bps) == (MillisPerSec * bal) \div bps

\* now.duration_since(earlier): saturates to zero or panics when earlier > now
DurationSincePanics(now, earlier) == now < earlier /\ ~saturating
duration_since(now, earlier) == IF now >= earlier THEN now - earlier ELSE 0

\* The result of a ledger call: the map, the queue, the value returned, and
\* whether the call panicked (holding the lock).
Outcome(U, E, ret, panic) == [users |-> U, exp |-> E, ret |-> ret, panic |-> panic]

\* mutant: a balance of exactly max_balance is stored, not treated as full
replace_balance_strict(U, E, now, user_id, new_balance) ==
    IF new_balance > max_balance
    THEN Outcome(Remove(U, user_id), E, max_balance, FALSE)
    ELSE Outcome(Insert(U, user_id,
                        [balance |-> new_balance, last_balance_update |-> now]),
                 Insert(E, user_id, now), new_balance, FALSE)

\* mutant: a negative balance is floored at zero
replace_balance_floored(U, E, now, user_id, new_balance) ==
    IF new_balance >= max_balance
    THEN Outcome(Remove(U, user_id), E, max_balance, FALSE)
    ELSE LET b == IF new_balance < 0 THEN 0 ELSE new_balance
         IN Outcome(Insert(U, user_id, [balance |-> b, last_balance_update |-> now]),
                    Insert(E, user_id, now), b, FALSE)

\* mutant: a full balance is stored like any other; nothing caps it
replace_balance_uncapped(U, E, now, user_id, new_balance) ==
    Outcome(Insert(U, user_id, [balance |-> new_balance, last_balance_update |-> now]),
            Insert(E, user_id, now), new_balance, FALSE)

\* mutant: a full balance is reported but the Entry stays
replace_balance_keep(U, E, now, user_id, new_balance) ==
    IF new_balance >= max_balance
    THEN Outcome(U, E, max_balance, FALSE)
    ELSE Outcome(Insert(U, user_id,
                        [balance |-> new_balance, last_balance_update |-> now]),
                 Insert(E, user_id, now), new_balance, FALSE)

\* mutant: an Entry that is replaced keeps its old last_balance_update
replace_balance_nostamp(U, E, now, user_id, new_balance) ==
    IF new_balance >= max_balance
    THEN Outcome(Remove(U, user_id), E, max_balance, FALSE)
    ELSE LET stamp == IF user_id \in DOMAIN U THEN U[user_id].last_balance_update
                      ELSE now
             U2 == Insert(U, user_id,
                          [balance |-> new_balance, last_balance_update |-> stamp])
         IN IF balance_per_second = 0
            THEN Outcome(U2, E, new_balance, TRUE)
            ELSE Outcome(U2,
                         Insert(E, user_id,
                                now + get_balance_wait(max_balance - new_balance,
                                                       balance_per_second)),
                         new_balance, FALSE)

\* mutant: the expiry is queued a millisecond short of the wait
replace_balance_early(U, E, now, user_id, new_balance) ==
    IF new_balance >= max_balance
    THEN Outcome(Remove(U, user_id), E, max_balance, FALSE)
    ELSE LET U2 == Insert(U, user_id,
                          [balance |-> new_balance, last_balance_update |-> now])
         IN IF balance_per_second = 0
            THEN Outcome(U2, E, new_balance, TRUE)
            ELSE Outcome(U2,
                         Insert(E, user_id,
                                now + get_balance_wait(max_balance - new_balance,
                                                       balance_per_second) - 1),
                         new_balance, FALSE)

\* mutant: a full balance clears the whole map
replace_balance_clear(U, E, now, user_id, new_balance) ==
    IF new_balance >= max_balance
    THEN Outcome(EmptyMap, E, max_balance, FALSE)
    ELSE LET U2 == Insert(U, user_id,
                          [balance |-> new_balance, last_balance_update |-> now])
         IN IF balance_per_second = 0
            THEN Outcome(U2, E, new_balance, TRUE)
            ELSE Outcome(U2,
                         Insert(E, user_id,
                                now + get_balance_wait(max_balance - new_balance,
                                                       balance_per_second)),
                         new_balance, FALSE)

replace_balance(U, E, now, user_id, new_balance) ==
    IF new_balance >= max_balance
    THEN Outcome(Remove(U, user_id), E, max_balance, FALSE)
    ELSE LET U2 == Insert(U, user_id,
                          [balance |-> new_balance, last_balance_update |-> now])
         IN IF balance_per_second = 0
            THEN Outcome(U2, E, new_balance, TRUE)  \* division by zero
            ELSE LET wait_time == get_balance_wait(max_balance - new_balance,
                                                   balance_per_second)
                 IN Outcome(U2, Insert(E, user_id, now + wait_time), new_balance, FALSE)

\* mutant: a user without an Entry counts as empty
add_balance_absent_empty(U, E, now, user_id, balance_diff) ==
    replace_balance(U, E, now, user_id,
                    (IF user_id \in DOMAIN U THEN U[user_id].balance ELSE 0) + balance_diff)

\* mutant: the coins accrued since the last update are forgotten
add_balance_no_accrual(U, E, now, user_id, balance_diff) ==
    replace_balance(U, E, now, user_id,
                    (IF user_id \in DOMAIN U THEN U[user_id].balance ELSE max_balance)
                        + balance_diff)

\* mutant: the stored balance is ignored, the diff applies to a full one
add_balance_from_full(U, E, now, user_id, balance_diff) ==
    replace_balance(U, E, now, user_id, max_balance + balance_diff)

add_balance(U, E, now, user_id, balance_diff) ==
    IF user_id \in DOMAIN U /\ DurationSincePanics(now, U[user_id].last_balance_update)
    THEN Outcome(U, E, 0, TRUE)
    ELSE LET current_balance ==
                 IF user_id \in DOMAIN U
                 THEN LET passed_time == duration_since(now, U[user_id].last_balance_update)
                          added_bal == get_accumulated_balance(passed_time, balance_per_second)
                      IN U[user_id].balance + added_bal
                 ELSE max_balance
             new_balance == current_balance + balance_diff
         IN replace_balance(U, E, now, user_id, AsI64(new_balance))

\* mutant: a read that computes the balance and stores nothing
get_balance_pure(U, E, now, user_id) ==
    Outcome(U, E, add_balance(U, E, now, user_id, 0).ret, FALSE)

get_balance(U, E, now, user_id) == add_balance(U, E, now, user_id, 0)

\* The Entry of u in map U: {} when absent (users.get)
Entry(U, u) == IF u \in DOMAIN U THEN {U[u]} ELSE {}

\* ------------------------------------------------- the expiry scheduler
\* The entry the queue peeks: the earliest date (the queue's order among
\* equal dates is not specified; every such entry meets the same test).
Peek(E) == CHOOSE u \in DOMAIN E : \A v \in DOMAIN E : E[u] <= E[v]

\* mutant: a popped entry is dropped without recomputing the balance
RECURSIVE update_loop_norecompute(_, _, _)
update_loop_norecompute(U, E, now) ==
    IF DOMAIN E = {}
    THEN [users |-> U, exp |-> E, panic |-> FALSE, sleep |-> -1]
    ELSE LET user_id == CHOOSE u \in DOMAIN E : \A v \in DOMAIN E : E[u] <= E[v]
             date == E[user_id]
         IN IF date >= now
            THEN [users |-> U, exp |-> E, panic |-> FALSE,
                  sleep |-> (date - now) + RescheduleMarginMs]
            ELSE update_loop_norecompute(U, Remove(E, user_id), now)

\* mutant: the wake is set for the trigger itself, without the margin
RECURSIVE update_loop_nomargin(_, _, _)
update_loop_nomargin(U, E, now) ==
    IF DOMAIN E = {}
    THEN [users |-> U, exp |-> E, panic |-> FALSE, sleep |-> -1]
    ELSE LET user_id == CHOOSE u \in DOMAIN E : \A v \in DOMAIN E : E[u] <= E[v]
             date == E[user_id]
         IN IF date >= now
            THEN [users |-> U, exp |-> E, panic |-> FALSE, sleep |-> date - now]
            ELSE LET o == get_balance(U, Remove(E, user_id), now, user_id)
                 IN IF o.panic
                    THEN [users |-> o.users, exp |-> o.exp, panic |-> TRUE, sleep |-> -1]
                    ELSE update_loop_nomargin(o.users, o.exp, now)

\* The while-let loop of QuotaControlActor::update.  sleep is the duration
\* handed to reschedule_after, or -1 when the loop ends on an empty queue.
RECURSIVE update_loop(_, _, _)
update_loop(U, E, now) ==
    IF DOMAIN E = {}
    THEN [users |-> U, exp |-> E, panic |-> FALSE, sleep |-> -1]
    ELSE LET user_id == Peek(E)
             date == E[user_id]
         IN IF date >= now
            THEN [users |-> U, exp |-> E, panic |-> FALSE,
                  sleep |-> (date - now) + RescheduleMarginMs]
            ELSE LET o == get_balance(U, Remove(E, user_id), now, user_id)
                 IN IF o.panic
                    THEN [users |-> o.users, exp |-> o.exp, panic |-> TRUE, sleep |-> -1]
                    ELSE update_loop(o.users, o.exp, now)

RemoveAt(s, i) == SubSeq(s, 1, i - 1) \o SubSeq(s, i + 1, Len(s))

\* mutant: cancel_future finds nothing to cancel
CancelFuture_none(ts, h) == ts

\* timers without the wake the handle h names (ctx.cancel_future)
RECURSIVE CancelFuture(_, _)
CancelFuture(ts, h) ==
    IF ts = <<>> THEN <<>>
    ELSE IF h # {} /\ Head(ts) \in h THEN Tail(ts)
    ELSE <<Head(ts)>> \o CancelFuture(Tail(ts), h)

\* ------------------------------------------------------ request context
Permission(u) == IF u \in AdminIds THEN "Admin" ELSE "User"

\* mutant: a counter of exactly zero still passes
check_request_balance_strict(c) ==
    IF c.user = NoUser THEN "Ok"
    ELSE IF Permission(c.user) = "Admin" THEN "Ok"
    ELSE IF c.rem_coins < 0 THEN "TooManyRequests"
    ELSE "Ok"

check_request_balance(c) ==
    IF c.user = NoUser THEN "Ok"
    ELSE IF Permission(c.user) = "Admin" THEN "Ok"
    ELSE IF c.rem_coins <= 0 THEN "TooManyRequests"
    ELSE "Ok"

\* Context::spend_request_coins: rem_coins.fetch_sub(amount) wraps
spend_request_coins(c, amount) == [c EXCEPT !.rem_coins = AsI64(@ - amount)]

\* Context::save_user
save_user(c, u) == [c EXCEPT !.user = u]

\* A request: its position in graphql(), the fields of its Context (user,
\* rem_coins), the locals req_quota and now, and, as history, the user it
\* started as, its costed operations, the result of its last balance
\* check and the add_quota_balance calls it made.
IdleRequest == [pc |-> "idle", user |-> NoUser, req_quota |-> 0, rem_coins |-> 0,
                now |-> 0, started_as |-> NoUser, spends |-> 0, check |-> "none",
                commits |-> 0]

\* The handler returned: its count of costed operations is dropped
Finished(c, pc) == [c EXCEPT !.pc = pc, !.check = "none", !.spends = 0]

\* The handler's thread panicked on lock().unwrap() or inside the ledger
Panicked == [IdleRequest EXCEPT !.pc = "panicked"]

\* ------------------------------------------------------------- history
\* Per user, the last call the ledger served for it: the call and its
\* arguments, the value it returned, whether it found an Entry, the call
\* before it, and the value of the latest get_quota_balance that no spend
\* has followed.  HistOff keeps no history.
NoHist == [op |-> "none", now |-> 0, arg |-> 0, ret |-> 0, had |-> FALSE,
           prev_op |-> "none", lastget |-> <<>>]
HistOff == [NoHist EXCEPT !.op = "off"]

IsSpend(h) == h.op = "set" \/ (h.op = "add" /\ h.arg < 0)

Recorded(h, op, now, arg, pre, ret) ==
    IF h.op = "off" THEN h
    ELSE [op |-> op, now |-> now, arg |-> arg, ret |-> ret, had |-> (pre # {}),
          prev_op |-> h.op,
          lastget |-> IF h.op = "get" THEN <<h.ret>>
                      ELSE IF IsSpend(h) THEN <<>>
                      ELSE h.lastget]

\* ----------------------------------------------------------------- Init
\* QuotaControlActor::init: an empty ledger, the actor started
InitData ==
    /\ max_balance \in MaxBalances
    /\ balance_per_second \in Rates
    /\ saturating \in BOOLEAN
    /\ users = EmptyMap
    /\ next_expiration = EmptyMap
    /\ poisoned = FALSE
    /\ clock = 0
    /\ mailbox = 0
    /\ next_run = {}
    /\ timers = <<>>
    /\ sched_pc = "idle"
    /\ sched_now = 0
    /\ req = [r \in Requests |-> IdleRequest]

Init ==
    /\ InitData
    /\ hist = [u \in UserIds |-> HistOff]
    /\ rearmed = "off"

InitLedger ==
    /\ InitData
    /\ hist = [u \in UserIds |-> NoHist]
    /\ rearmed = "off"

params == <<max_balance, balance_per_second, saturating>>
ledger == <<users, next_expiration, poisoned, hist>>
actor == <<mailbox, next_run, timers, sched_pc, sched_now, rearmed>>

\* ---------------------------------------------------------------- time
Tick ==
    /\ clock + TickMs <= MaxTime
    /\ clock' = clock + TickMs
    /\ UNCHANGED <<params, ledger, actor, req>>

\* ------------------------------------------------- AppData (the facade)
\* self.handle.lock().unwrap()
CanLock == ~poisoned

\* The ledger after the call op(now, user, arg), whose outcome is o; a panic
\* under the lock poisons the Mutex.
Store(op, now, u, arg, o) ==
    /\ users' = o.users
    /\ next_expiration' = o.exp
    /\ poisoned' = o.panic
    /\ hist' = [hist EXCEPT ![u] =
                  IF o.panic THEN Recorded(@, "panicked", now, arg, Entry(users, u), 0)
                  ELSE Recorded(@, op, now, arg, Entry(users, u), o.ret)]

\* self.actor_addr.do_send(QuotaUpdateMessage()), which a panic never reaches
Notify(o) == mailbox' = IF o.panic THEN mailbox ELSE mailbox + 1

\* AppData::get_quota_balance(now, user_id)
get_quota_balance(now, u) ==
    /\ CanLock
    /\ Store("get", now, u, 0, get_balance(users, next_expiration, now, u))
    /\ UNCHANGED <<params, clock, actor>>

\* AppData::set_quota_balance(now, user_id, balance)
set_quota_balance(now, u, v) ==
    /\ CanLock
    /\ mailbox < MaxMailbox
    /\ LET o == replace_balance(users, next_expiration, now, u, v)
       IN Store("set", now, u, v, o) /\ Notify(o)
    /\ UNCHANGED <<params, clock, next_run, timers, sched_pc, sched_now, rearmed>>

\* AppData::add_quota_balance(now, user_id, balance_diff)
add_quota_balance(now, u, d) ==
    /\ CanLock
    /\ mailbox < MaxMailbox
    /\ LET o == add_balance(users, next_expiration, now, u, d)
       IN Store("add", now, u, d, o) /\ Notify(o)
    /\ UNCHANGED <<params, clock, next_run, timers, sched_pc, sched_now, rearmed>>

StoredBalance(u) == IF u \in DOMAIN users THEN users[u].balance ELSE max_balance

\* Direct calls of the facade, with now = Instant::now()
GetQuotaBalance(u) ==
    /\ get_quota_balance(clock, u)
    /\ UNCHANGED req

SetQuotaBalance(u, v) ==
    /\ v >= 0 - MaxDebt
    /\ set_quota_balance(clock, u, v)
    /\ UNCHANGED req

AddQuotaBalance(u, d) ==
    /\ StoredBalance(u) + d >= 0 - MaxDebt
    /\ add_quota_balance(clock, u, d)
    /\ UNCHANGED req

\* ------------------------------------------- the graphql request handler
\* graphql(): the identity cookie is parsed; with a user the request reads
\* its quota (Instant::now() is evaluated before the facade takes the
\* lock), without one it gets i64::max_value().  Requests are numbered in
\* the order they start.
Start(r, ident) ==
    /\ req[r].pc = "idle"
    /\ \A q \in Requests : q < r => req[q].pc # "idle"
    /\ req' = [req EXCEPT ![r] =
                 IF ident # NoUser
                 THEN [IdleRequest EXCEPT !.pc = "open", !.user = ident,
                                          !.started_as = ident, !.now = clock]
                 ELSE [IdleRequest EXCEPT !.pc = "exec", !.req_quota = I64Max,
                                          !.rem_coins = I64Max]]
    /\ UNCHANGED <<params, ledger, clock, actor>>

\* bank.get_quota_balance(now, user.id) and Context::new(.., req_quota); the
\* temporary `now` is dropped
Open(r) ==
    /\ req[r].pc = "open"
    /\ IF poisoned
       THEN /\ req' = [req EXCEPT ![r] = Panicked]
            /\ UNCHANGED ledger
       ELSE LET o == get_balance(users, next_expiration, req[r].now, req[r].user)
            IN /\ Store("get", req[r].now, req[r].user, 0, o)
               /\ req' = [req EXCEPT ![r] =
                            IF o.panic THEN Panicked
                            ELSE [@ EXCEPT !.pc = "exec", !.req_quota = o.ret,
                                           !.rem_coins = o.ret, !.now = 0]]
    /\ UNCHANGED <<params, clock, actor>>

\* a resolver calls ctx.check_request_balance()
CheckBalance(r) ==
    /\ req[r].pc = "exec"
    /\ req' = [req EXCEPT ![r].check = check_request_balance(req[r])]
    /\ UNCHANGED <<params, ledger, clock, actor>>

\* mutant: the coins a resolver spends are debited in the ledger at once
SpendCoins_debit(r) ==
    /\ req[r].pc = "exec"
    /\ req[r].spends < MaxSpends
    /\ req[r].user # NoUser
    /\ ~poisoned
    /\ Store("add", clock, req[r].user, 0 - REQ_COINS_MODIFIER_DB_QUERY,
             add_balance(users, next_expiration, clock, req[r].user,
                         0 - REQ_COINS_MODIFIER_DB_QUERY))
    /\ req' = [req EXCEPT ![r] =
                 [spend_request_coins(@, REQ_COINS_MODIFIER_DB_QUERY)
                    EXCEPT !.spends = @ + 1, !.check = "none"]]
    /\ UNCHANGED <<params, clock, actor>>

\* a resolver calls ctx.spend_request_coins(REQ_COINS_MODIFIER_DB_QUERY)
SpendCoins(r) ==
    /\ req[r].pc = "exec"
    /\ req[r].spends < MaxSpends
    /\ req' = [req EXCEPT ![r] =
                 [spend_request_coins(@, REQ_COINS_MODIFIER_DB_QUERY)
                    EXCEPT !.spends = @ + 1, !.check = "none"]]
    /\ UNCHANGED <<params, ledger, clock, actor>>

\* MutationRoot::login, the credentials being those of u
Login(r, u) ==
    /\ req[r].pc = "exec"
    /\ req[r].spends < MaxSpends
    /\ req' = [req EXCEPT ![r] =
                 [spend_request_coins(save_user(@, u), REQ_COINS_MODIFIER_LOGIN)
                    EXCEPT !.spends = @ + 1, !.check = "none"]]
    /\ UNCHANGED <<params, ledger, clock, actor>>

\* MutationRoot::logout
Logout(r) ==
    /\ req[r].pc = "exec"
    /\ req[r].user # NoUser
    /\ req' = [req EXCEPT ![r] = [save_user(@, NoUser) EXCEPT !.check = "none"]]
    /\ UNCHANGED <<params, ledger, clock, actor>>

\* web::block(..).await? returned Err: the handler returns at once
ExecErr(r) ==
    /\ req[r].pc = "exec"
    /\ req' = [req EXCEPT ![r] = Finished(@, "failed")]
    /\ UNCHANGED <<params, ledger, clock, actor>>

\* final_coins - req_quota in i64
coin_diff(c) == AsI64(c.rem_coins - c.req_quota)

\* web::block(..) returned Ok: the handler compares the coins; when they
\* differ and the context has a user it calls add_quota_balance, whose
\* argument Instant::now() is evaluated here
ExecOk(r) ==
    /\ req[r].pc = "exec"
    /\ req' = [req EXCEPT ![r] =
                 IF @.req_quota # @.rem_coins /\ @.user # NoUser
                 THEN [@ EXCEPT !.pc = "commit", !.now = clock, !.check = "none"]
                 ELSE Finished(@, "done")]
    /\ UNCHANGED <<params, ledger, clock, actor>>

\* bank.add_quota_balance(now, user, coin_diff)
Commit(r) ==
    /\ req[r].pc = "commit"
    /\ IF poisoned
       THEN /\ req' = [req EXCEPT ![r] = Panicked]
            /\ UNCHANGED <<ledger, mailbox>>
       ELSE /\ mailbox < MaxMailbox
            /\ LET o == add_balance(users, next_expiration, req[r].now, req[r].user,
                                    coin_diff(req[r]))
               IN /\ Store("add", req[r].now, req[r].user, coin_diff(req[r]), o)
                  /\ Notify(o)
                  /\ req' = [req EXCEPT ![r] =
                               IF o.panic THEN Panicked
                               ELSE Finished([@ EXCEPT !.commits = @ + 1], "done")]
    /\ UNCHANGED <<params, clock, next_run, timers, sched_pc, sched_now, rearmed>>

\* ------------------------------------------------- QuotaControlActor
\* Handler<QuotaUpdateMessage>::handle -> update: let now = Instant::now()
Receive ==
    /\ sched_pc = "idle"
    /\ mailbox > 0
    /\ mailbox' = mailbox - 1
    /\ sched_now' = clock
    /\ sched_pc' = "update"
    /\ UNCHANGED <<params, ledger, clock, next_run, timers, rearmed, req>>

\* a wake set by notify_later falls due and delivers its message; its
\* handle, which then cancels nothing, counts as no handle
TimerFire(i) ==
    /\ sched_pc = "idle"
    /\ i \in 1..Len(timers)
    /\ timers[i] <= clock
    /\ timers' = RemoveAt(timers, i)
    /\ next_run' = next_run \ {timers[i]}
    /\ sched_now' = clock
    /\ sched_pc' = "update"
    /\ UNCHANGED <<params, ledger, clock, mailbox, rearmed, req>>

\* mutant: the previous wake is left pending
reschedule_after_keep(dur) ==
    /\ timers' = Append(timers, clock + dur)
    /\ next_run' = {clock + dur}
    /\ rearmed' = rearmed

\* QuotaControlActor::reschedule_after
reschedule_after(dur) ==
    /\ timers' = Append(CancelFuture(timers, next_run), clock + dur)
    /\ next_run' = {clock + dur}
    /\ rearmed' = IF rearmed = "off" THEN "off"
                  ELSE IF next_run = {} THEN "none"
                  ELSE IF \A p \in next_run : clock + dur < p THEN "earlier"
                  ELSE IF \A p \in next_run : clock + dur > p THEN "later"
                  ELSE "same"

\* the users whose expiry the loop of update pops
Popped(E, now) == {u \in DOMAIN E : E[u] < now}

\* QuotaControlActor::update from data_ptr.lock().unwrap() to its return
Update ==
    /\ sched_pc = "update"
    /\ IF poisoned
       THEN /\ sched_pc' = "panicked"
            /\ UNCHANGED <<ledger, next_run, timers, rearmed>>
       ELSE LET o == update_loop(users, next_expiration, sched_now)
            IN /\ users' = o.users
               /\ next_expiration' = o.exp
               /\ poisoned' = o.panic
               /\ hist' = [u \in UserIds |->
                             IF u \notin Popped(next_expiration, sched_now) THEN hist[u]
                             ELSE IF o.panic
                             THEN Recorded(hist[u], "panicked", sched_now, 0,
                                           Entry(users, u), 0)
                             ELSE Recorded(hist[u], "recompute", sched_now, 0,
                                           Entry(users, u),
                                           get_balance(users, next_expiration,
                                                       sched_now, u).ret)]
               /\ sched_pc' = IF o.panic THEN "panicked" ELSE "idle"
               /\ IF ~o.panic /\ o.sleep >= 0
                  THEN reschedule_after(o.sleep)
                  ELSE UNCHANGED <<next_run, timers, rearmed>>
    /\ sched_now' = 0
    /\ UNCHANGED <<params, clock, mailbox, req>>

\* ----------------------------------------------------------------- Next
Scheduler ==
    \/ Receive
    \/ \E i \in 1..Len(timers) : TimerFire(i)
    \/ Update

Request(r) ==
    \/ \E u \in UserIds \cup {NoUser} : Start(r, u)
    \/ Open(r)
    \/ CheckBalance(r)
    \/ SpendCoins(r)
    \/ \E u \in UserIds : Login(r, u)
    \/ Logout(r)
    \/ ExecErr(r)
    \/ ExecOk(r)
    \/ Commit(r)

\* The server: the facade as the graphql handler drives it.
Next ==
    \/ Tick
    \/ Scheduler
    \/ \E r \in Requests : Request(r)

Spec == Init /\ [][Next]_vars

\* The facade under any sequence of direct calls of its three methods.
SetValues == {-10, 0, 10, max_balance, max_balance + 10}
AddDeltas == {-10, 0, 10}
ClientUsers == {2}

NextLedger ==
    \/ Tick
    \/ Scheduler
    \/ \E u \in ClientUsers : GetQuotaBalance(u)
    \/ \E u \in ClientUsers, v \in SetValues : SetQuotaBalance(u, v)
    \/ \E u \in ClientUsers, d \in AddDeltas : AddQuotaBalance(u, d)

SpecLedger == InitLedger /\ [][NextLedger]_vars

\* The facade called directly for every user, the moves of the wake recorded.
WakeRates == {20}

InitWake ==
    /\ max_balance \in MaxBalances
    /\ balance_per_second \in WakeRates
    /\ saturating = TRUE
    /\ users = EmptyMap
    /\ next_expiration = EmptyMap
    /\ poisoned = FALSE
    /\ clock = 0
    /\ mailbox = 0
    /\ next_run = {}
    /\ timers = <<>>
    /\ sched_pc = "idle"
    /\ sched_now = 0
    /\ req = [r \in Requests |-> IdleRequest]
    /\ hist = [u \in UserIds |-> HistOff]
    /\ rearmed = "none"

NextWake ==
    \/ Tick
    \/ Scheduler
    \/ \E u \in UserIds : GetQuotaBalance(u)
    \/ \E u \in UserIds, v \in SetValues : SetQuotaBalance(u, v)
    \/ \E u \in UserIds, d \in AddDeltas : AddQuotaBalance(u, d)

SpecWake == InitWake /\ [][NextWake]_vars

\* The facade called by concurrent tasks, a set or an add taken step by
\* step: lock().unwrap() and the ledger call, then do_send, then the return
\* that drops the guard.  A task holds the lock while its pc is "locked"
\* or "sent".  do_send never waits for room in the mailbox; a call starts
\* only while the mailbox has room, which keeps the count within MaxMailbox.
LockHeld == \E r \in Requests : req[r].pc \in {"locked", "sent"}

\* set_quota_balance up to data.replace_balance(now, user_id, balance)
SetLock(r, u, v) ==
    /\ req[r].pc = "idle"
    /\ ~LockHeld
    /\ mailbox < MaxMailbox
    /\ v >= 0 - MaxDebt
    /\ IF poisoned
       THEN /\ req' = [req EXCEPT ![r] = Panicked]
            /\ UNCHANGED ledger
       ELSE LET o == replace_balance(users, next_expiration, clock, u, v)
            IN /\ Store("set", clock, u, v, o)
               /\ req' = [req EXCEPT ![r] =
                            IF o.panic THEN Panicked
                            ELSE [IdleRequest EXCEPT !.pc = "locked", !.user = u]]
    /\ UNCHANGED <<params, clock, actor>>

\* add_quota_balance up to data.add_balance(now, user_id, balance_diff)
AddLock(r, u, d) ==
    /\ req[r].pc = "idle"
    /\ ~LockHeld
    /\ mailbox < MaxMailbox
    /\ StoredBalance(u) + d >= 0 - MaxDebt
    /\ IF poisoned
       THEN /\ req' = [req EXCEPT ![r] = Panicked]
            /\ UNCHANGED ledger
       ELSE LET o == add_balance(users, next_expiration, clock, u, d)
            IN /\ Store("add", clock, u, d, o)
               /\ req' = [req EXCEPT ![r] =
                            IF o.panic THEN Panicked
                            ELSE [IdleRequest EXCEPT !.pc = "locked", !.user = u]]
    /\ UNCHANGED <<params, clock, actor>>

\* self.actor_addr.do_send(QuotaUpdateMessage()): the guard `data` is alive
DoSend(r) ==
    /\ req[r].pc = "locked"
    /\ mailbox' = mailbox + 1
    /\ req' = [req EXCEPT ![r].pc = "sent"]
    /\ UNCHANGED <<params, ledger, clock, next_run, timers, sched_pc, sched_now,
                   rearmed>>

\* the call returns: `data` goes out of scope and the lock is released
Unlock(r) ==
    /\ req[r].pc = "sent"
    /\ req' = [req EXCEPT ![r] = IdleRequest]
    /\ UNCHANGED <<params, ledger, clock, actor>>

\* get_quota_balance by task r: lock, get_balance, return
GetCall(r, u) ==
    /\ req[r].pc = "idle"
    /\ ~LockHeld
    /\ IF poisoned
       THEN /\ req' = [req EXCEPT ![r] = Panicked]
            /\ UNCHANGED ledger
       ELSE LET o == get_balance(users, next_expiration, clock, u)
            IN /\ Store("get", clock, u, 0, o)
               /\ req' = [req EXCEPT ![r] = IF o.panic THEN Panicked ELSE @]
    /\ UNCHANGED <<params, clock, actor>>

\* update blocks in data_ptr.lock() while a task holds the lock
UpdateUnlocked ==
    /\ ~LockHeld
    /\ Update

NextSteps ==
    \/ Tick
    \/ Receive
    \/ \E i \in 1..Len(timers) : TimerFire(i)
    \/ UpdateUnlocked
    \/ \E r \in Requests, u \in ClientUsers : GetCall(r, u)
    \/ \E r \in Requests, u \in ClientUsers, v \in SetValues : SetLock(r, u, v)
    \/ \E r \in Requests, u \in ClientUsers, d \in AddDeltas : AddLock(r, u, d)
    \/ \E r \in Requests : DoSend(r)
    \/ \E r \in Requests : Unlock(r)

SpecSteps == Init /\ [][NextSteps]_vars

\* The facade under other refill rates: one at which the waits fall on the
\* instants the clock takes, and the largest a u64 holds.
OtherRates == {20, 2^I64Bits - 1}

InitRates ==
    /\ max_balance \in MaxBalances
    /\ balance_per_second \in OtherRates
    /\ saturating \in BOOLEAN
    /\ users = EmptyMap
    /\ next_expiration = EmptyMap
    /\ poisoned = FALSE
    /\ clock = 0
    /\ mailbox = 0
    /\ next_run = {}
    /\ timers = <<>>
    /\ sched_pc = "idle"
    /\ sched_now = 0
    /\ req = [r \in Requests |-> IdleRequest]
    /\ hist = [u \in UserIds |-> NoHist]
    /\ rearmed = "off"

SpecRates == InitRates /\ [][NextLedger]_vars

\* ================================================================ claims
\* C1: AddBalance applies the delta to the clamped current balance: with
\* current = min(stored + accrued, max_balance) for a present Entry and
\* max_balance for an absent one, add_quota_balance(now, u, delta) returns
\* and leaves what ReplaceBalance(now, u, current + delta) returns and
\* leaves; a negative delta on an Entry that has accrued past max_balance
\* leaves max_balance + delta.
C1_AddAppliesToClamped ==
    [][\A u \in UserIds :
         (hist'[u].op = "add" /\ hist'[u] # hist[u]) =>
            LET now == hist'[u].now
                current == IF u \in DOMAIN users
                           THEN Min(users[u].balance
                                      + ((now - users[u].last_balance_update)
                                            * balance_per_second) \div MillisPerSec,
                                    max_balance)
                           ELSE max_balance
                o == replace_balance(users, next_expiration, now, u,
                                     current + hist'[u].arg)
            IN /\ hist'[u].ret = o.ret
               /\ users' = o.users]_vars

\* C2: after set_quota_balance(t0, u, b) with b < max_balance, the next call
\* for u, get_quota_balance(t0 + d, u) with d >= 0, returns
\* min(b + floor(d * balance_per_second / 1000), max_balance).
C2_GetAfterSet ==
    [][\A u \in UserIds :
         (/\ hist[u].op = "set"
          /\ hist[u].arg < max_balance
          /\ hist'[u].op = "get"
          /\ hist'[u].now >= hist[u].now) =>
            hist'[u].ret = Min(hist[u].arg
                                 + ((hist'[u].now - hist[u].now) * balance_per_second)
                                      \div 1000,
                               max_balance)]_vars

\* a get_quota_balance that followed a set_quota_balance below max_balance
\* (the set left the Entry the get found) and returned a value no set stored:
\* coins accrued in between
C2_Witness ==
    \E u \in UserIds :
        /\ hist[u].op = "get"
        /\ hist[u].prev_op = "set"
        /\ hist[u].had
        /\ hist[u].ret < max_balance
        /\ hist[u].ret \notin {-10, 0, 10}

\* C7: for a user without an Entry (never seen, or evicted),
\* get_quota_balance returns max_balance.
C7_AbsentIsFull ==
    \A u \in UserIds :
        (hist[u].op = "get" /\ ~hist[u].had) => hist[u].ret = max_balance

\* get_quota_balance for a user whose Entry the scheduler has just evicted
C7_Witness ==
    \E u \in UserIds :
        /\ hist[u].op = "get"
        /\ ~hist[u].had
        /\ hist[u].prev_op = "recompute"
        /\ hist[u].ret = max_balance

\* C8: two get_quota_balance calls for a user at t1 <= t2 (the calls sample
\* a clock that never goes back) with no spend between them (no
\* add_quota_balance of a negative delta, no set_quota_balance) return
\* r1 <= r2 <= max_balance.
C8_MonotoneRefill ==
    \A u \in UserIds :
        (hist[u].op = "get" /\ hist[u].lastget # <<>>) =>
            /\ hist[u].lastget[1] <= hist[u].ret
            /\ hist[u].ret <= max_balance

\* two successive get_quota_balance calls, the second returning more
C8_Witness ==
    \E u \in UserIds :
        /\ hist[u].op = "get"
        /\ hist[u].prev_op = "get"
        /\ hist[u].lastget # <<>>
        /\ hist[u].lastget[1] < hist[u].ret

\* C10: set_quota_balance(now, u, v) with v >= max_balance returns
\* max_balance and leaves u without an Entry, whatever Entry u had; the
\* next get_quota_balance for u returns max_balance.
C10_SetFullRemoves ==
    [][\A u \in UserIds :
         /\ (hist'[u].op = "set" /\ hist'[u].arg >= max_balance) =>
                (hist'[u].ret = max_balance /\ u \notin DOMAIN users')
         /\ (hist[u].op = "set" /\ hist[u].arg >= max_balance /\ hist'[u].op = "get") =>
                hist'[u].ret = max_balance]_vars

\* a set_quota_balance of a full balance on a user that had an Entry
C10_Witness ==
    \E u \in UserIds :
        /\ hist[u].op = "set"
        /\ hist[u].had
        /\ hist[u].arg >= max_balance
        /\ hist[u].ret = max_balance
        /\ u \notin DOMAIN users

\* C3: when the requests of one full, unprivileged user u each read
\* req_quota = max_balance, each spend locally, and all commit at one
\* instant, then after the last commit, in whatever order they came, the
\* balance of u is max_balance minus the sum of what they spent, whenever
\* that is below max_balance (so not floored at zero).
C3_SoftLimitSum ==
    \A u \in UserIds \ AdminIds :
        (\A r \in Requests :
            /\ req[r].pc = "done"
            /\ req[r].started_as = u
            /\ req[r].user = u
            /\ req[r].req_quota = max_balance
            /\ (req[r].commits = 1 => req[r].now = clock)) =>
           LET RECURSIVE Spent(_)
               Spent(R) == IF R = {} THEN 0
                           ELSE LET r == CHOOSE x \in R : TRUE
                                IN (req[r].req_quota - req[r].rem_coins)
                                      + Spent(R \ {r})
               total == Spent(Requests)
           IN total > 0 =>
                 /\ u \in DOMAIN users
                 /\ users[u].balance = max_balance - total

\* every request of user 2 read a full balance, spent, and committed at the
\* same instant; together they overdrew the balance
C3_Witness ==
    /\ \A r \in Requests :
          /\ req[r].pc = "done"
          /\ req[r].started_as = 2
          /\ req[r].user = 2
          /\ req[r].req_quota = max_balance
          /\ req[r].rem_coins < max_balance
          /\ req[r].commits = 1
          /\ req[r].now = clock
    /\ 2 \in DOMAIN users
    /\ users[2].balance < 0

\* C4: a request of an unprivileged user commits exactly once when it ends,
\* whether it succeeded or failed: one add_quota_balance when its counter
\* differs from the balance it started with, none when they are equal.
C4_CommitOnce ==
    \A r \in Requests :
        (/\ req[r].pc \in {"done", "failed"}
         /\ req[r].started_as \notin AdminIds \cup {NoUser}) =>
            req[r].commits = IF req[r].rem_coins # req[r].req_quota THEN 1 ELSE 0

\* C5: check_request_balance fails with TooManyRequests exactly when the
\* context holds a user that is not an administrator and the counter is
\* <= 0; it succeeds for a context without a user and for an administrator
\* whatever the counter; it changes neither the counter nor the ledger.
C5_CheckBalance ==
    [][\A r \in Requests :
         req'[r].check # "none" =>
            /\ req'[r].check = "TooManyRequests" <=>
                  (/\ req'[r].user # NoUser
                   /\ req'[r].user \notin AdminIds
                   /\ req'[r].rem_coins <= 0)
            /\ req[r].check # req'[r].check =>
                  /\ req'[r].rem_coins = req[r].rem_coins
                  /\ UNCHANGED <<users, next_expiration, mailbox>>]_vars

\* a context that lost its user by logout passes the check with an
\* exhausted counter
C5_Witness ==
    \E r \in Requests :
        /\ req[r].check = "Ok"
        /\ req[r].user = NoUser
        /\ req[r].started_as \notin AdminIds \cup {NoUser}
        /\ req[r].rem_coins <= 0

\* C5 as stated: the check fails exactly when the counter is <= 0 and the
\* caller is not privileged.
C5_FailsIffExhausted ==
    \A r \in Requests :
        req[r].check # "none" =>
            (req[r].check = "TooManyRequests" <=>
                (req[r].user \notin AdminIds /\ req[r].rem_coins <= 0))

\* C6: a request of an administrator neither reads nor changes the ledger:
\* no step of it changes an Entry or a pending expiry.
C6_AdminBypass ==
    [][\A r \in Requests :
         (/\ req[r].started_as \in AdminIds
          /\ req[r].user \in AdminIds
          /\ req'[r] # req[r]) =>
            UNCHANGED <<users, next_expiration>>]_vars

\* C11: a get_quota_balance whose recomputed balance (stored + accrued)
\* reaches or exceeds max_balance returns exactly max_balance, and right
\* after the call the user has no Entry.
C11_GetFullEvicts ==
    [][\A u \in UserIds :
         (/\ hist'[u].op = "get"
          /\ hist'[u] # hist[u]
          /\ u \in DOMAIN users
          /\ users[u].balance
                + ((hist'[u].now - users[u].last_balance_update) * balance_per_second)
                     \div 1000 >= max_balance) =>
            (hist'[u].ret = max_balance /\ u \notin DOMAIN users')]_vars

\* a get_quota_balance that followed an add_quota_balance, found the Entry
\* the add left, and returned max_balance, removing the Entry
C11_Witness ==
    \E u \in UserIds :
        /\ hist[u].op = "get"
        /\ hist[u].prev_op = "add"
        /\ hist[u].had
        /\ hist[u].ret = max_balance
        /\ u \notin DOMAIN users

\* C12: every Entry in the map has balance < max_balance, and every balance
\* a ledger call returned is <= max_balance.
C12_EntriesBelowMax ==
    /\ \A u \in DOMAIN users : users[u].balance < max_balance
    /\ \A u \in UserIds :
          hist[u].op \in {"get", "set", "add", "recompute"} =>
              hist[u].ret <= max_balance

\* a user holds the Entry that an add_quota_balance of a negative diff left
\* and whose balance the call returned
C12_Witness ==
    \E u \in DOMAIN users :
        /\ users[u].balance < max_balance
        /\ hist[u].op = "add"
        /\ hist[u].arg < 0
        /\ hist[u].prev_op = "set"
        /\ hist[u].ret = users[u].balance

\* C13: no lower bound: a set_quota_balance(now, u, v) with v < max_balance
\* that returns leaves exactly Entry {balance v, last_balance_update now} and
\* returns v, negative v included; an add_quota_balance of a negative diff
\* on a balance that has not accrued past max_balance leaves
\* stored + accrued + diff, unfloored.
C13_NoFloor ==
    [][\A u \in UserIds :
         /\ (hist'[u].op = "set" /\ hist'[u].arg < max_balance) =>
               /\ hist'[u].ret = hist'[u].arg
               /\ (hist'[u] # hist[u] =>
                     /\ u \in DOMAIN users'
                     /\ users'[u] = [balance |-> hist'[u].arg,
                                     last_balance_update |-> hist'[u].now])
         /\ LET current == IF u \in DOMAIN users
                            THEN users[u].balance
                                   + ((hist'[u].now - users[u].last_balance_update)
                                         * balance_per_second) \div 1000
                            ELSE max_balance
            IN (/\ hist'[u].op = "add"
                /\ hist'[u] # hist[u]
                /\ hist'[u].arg < 0
                /\ current <= max_balance) =>
                  /\ hist'[u].ret = current + hist'[u].arg
                  /\ u \in DOMAIN users'
                  /\ users'[u].balance = hist'[u].ret]_vars

\* an add_quota_balance of a negative diff that followed another add and
\* left a balance below zero
C13_Witness ==
    \E u \in DOMAIN users :
        /\ hist[u].op = "add"
        /\ hist[u].prev_op = "add"
        /\ hist[u].arg < 0
        /\ hist[u].ret < 0
        /\ users[u].balance = hist[u].ret

\* C14: with balance_per_second = 0 the service never starts: no ledger
\* call ever runs, and none panics holding the lock.
C14_ZeroRateNeverServes ==
    balance_per_second = 0 =>
        (~poisoned /\ \A u \in UserIds : hist[u].op = "none")

\* C15: no overflow: every balance that add_balance or get_balance computes
\* is the exact min(stored + floor(elapsed_ms * rate / 1000) + delta,
\* max_balance), and the expiry queued with a stored balance is the exact
\* now + floor(1000 * (max_balance - balance) / rate).
C15_NoOverflow ==
    [][\A u \in UserIds :
         (hist'[u].op \in {"get", "add", "recompute"} /\ hist'[u] # hist[u]) =>
            LET now == hist'[u].now
                exact == (IF u \in DOMAIN users
                          THEN users[u].balance
                                 + ((now - users[u].last_balance_update)
                                       * balance_per_second) \div 1000
                          ELSE max_balance) + hist'[u].arg
            IN /\ hist'[u].ret = Min(exact, max_balance)
               /\ exact < max_balance =>
                     /\ u \in DOMAIN users'
                     /\ users'[u].balance = exact
                     /\ next_expiration'[u] =
                           now + (1000 * (max_balance - exact)) \div balance_per_second]_vars

\* C16: refill does not depend on how often the balance is read: for a user
\* set to b at t0 and not spent from since, get_quota_balance(t, u) returns
\* min(b + floor((t - t0) * rate / 1000), max_balance) also when a
\* get_quota_balance or a recomputation of the scheduler for u happened at
\* an instant between t0 and t.  Stated for one intermediate read: after it,
\* a read at any later instant t of the clock returns that value.
C16_ReadsDoNotSlowRefill ==
    [][\A u \in UserIds :
         (/\ hist[u].op = "set"
          /\ hist[u].arg < max_balance
          /\ hist'[u].op \in {"get", "recompute"}) =>
            \A t \in 0..MaxTime :
                (t % TickMs = 0 /\ t >= hist'[u].now) =>
                    get_balance(users', next_expiration', t, u).ret =
                        Min(hist[u].arg
                              + ((t - hist[u].now) * balance_per_second) \div 1000,
                            max_balance)]_vars

\* C17: eventual eviction: once no facade call is made any more, the
\* scheduler, its messages and wakes being handled, removes every Entry and
\* empties the queue.  Stated for the states in which nothing is left that
\* would ever run the scheduler again (no message queued, no wake pending,
\* no update running): the map and the queue are empty there.
C17_NothingLeftBehind ==
    (mailbox = 0 /\ timers = <<>> /\ sched_pc # "update") =>
        (users = EmptyMap /\ next_expiration = EmptyMap)

\* C19: on each run of update that returns, the scheduler pops every entry
\* whose trigger is < now and calls get_balance(now, user) for each; an
\* entry whose trigger is >= now, the one equal to now included, stays as it
\* was; afterwards no entry with a trigger < now is left.
C19_PopsStrictlyBefore ==
    [][(sched_pc = "update" /\ sched_pc' = "idle") =>
         /\ \A u \in DOMAIN next_expiration :
               IF next_expiration[u] >= sched_now
               THEN /\ u \in DOMAIN next_expiration'
                    /\ next_expiration'[u] = next_expiration[u]
                    /\ Entry(users', u) = Entry(users, u)
               ELSE LET o == get_balance(users, Remove(next_expiration, u),
                                         sched_now, u)
                    IN /\ Entry(users', u) = Entry(o.users, u)
                       /\ Entry(next_expiration', u) = Entry(o.exp, u)
         /\ \A u \in DOMAIN next_expiration' : next_expiration'[u] >= sched_now]_vars

\* an update has just returned, leaving an entry whose trigger is the very
\* instant it ran at: the Entry keeps its older stamp and the wake is set a
\* second later
C19_Witness ==
    /\ sched_pc = "idle"
    /\ timers = <<clock + RescheduleMarginMs>>
    /\ \E u \in DOMAIN next_expiration :
          /\ next_expiration[u] = clock
          /\ u \in DOMAIN users
          /\ users[u].last_balance_update < clock

\* C19 as stated: the scheduler pops every entry whose trigger is <= now,
\* the one equal to now included, and recomputes it: after the wake each
\* such user is evicted or holds an Entry stamped now.
C19_PopsUpToNow ==
    [][(sched_pc = "update" /\ sched_pc' = "idle") =>
         \A u \in DOMAIN next_expiration :
             next_expiration[u] <= sched_now =>
                 /\ \/ u \notin DOMAIN users'
                    \/ users'[u].last_balance_update = sched_now
                 /\ u \in DOMAIN next_expiration' =>
                        \/ next_expiration'[u] > sched_now
                        \/ users'[u].last_balance_update = sched_now]_vars

\* C20: after every run of update that leaves the queue non-empty, exactly
\* one wake is pending; it is set (earliest remaining trigger - now) + 1 s
\* from the call, that is for the earliest remaining trigger + 1 s plus the
\* time that passed since the update read the clock, and never earlier than
\* the earliest remaining trigger.
C20_OneWakeAfterEarliest ==
    [][(/\ sched_pc = "update"
        /\ sched_pc' = "idle"
        /\ next_expiration' # EmptyMap) =>
         LET earliest == next_expiration'[Peek(next_expiration')]
         IN /\ Len(timers') = 1
            /\ next_run' = {timers'[1]}
            /\ timers'[1] = earliest + RescheduleMarginMs + (clock - sched_now)
            /\ timers'[1] >= earliest]_vars

\* the actor is idle with a non-empty queue and its one wake set for the
\* earliest trigger + 1 s
C20_Witness ==
    /\ sched_pc = "idle"
    /\ mailbox = 0
    /\ next_expiration # EmptyMap
    /\ Len(timers) = 1
    /\ next_run = {timers[1]}
    /\ timers[1] = next_expiration[Peek(next_expiration)] + RescheduleMarginMs

C20_WakeAtEarliestPlusMargin ==
    [][(/\ sched_pc = "update"
        /\ sched_pc' = "idle"
        /\ next_expiration' # EmptyMap) =>
         timers' = <<next_expiration'[Peek(next_expiration')]
                       + RescheduleMarginMs>>]_vars

\* C21: a set_quota_balance(now, u, v) with v < max_balance that returns
\* queues the expiry of u at now + ceil(1000 * (max_balance - v) /
\* balance_per_second) milliseconds, and a get_balance made exactly at the
\* queued trigger, with no call for u in between, finds the balance at
\* max_balance and evicts the Entry.
C21_ExpiryAtCeil ==
    [][\A u \in UserIds :
         (/\ hist'[u].op = "set"
          /\ hist'[u] # hist[u]
          /\ hist'[u].arg < max_balance) =>
            /\ u \in DOMAIN next_expiration'
            /\ next_expiration'[u] =
                  hist'[u].now
                    + (MillisPerSec * (max_balance - hist'[u].arg)
                         + balance_per_second - 1) \div balance_per_second
            /\ LET o == get_balance(users', next_expiration',
                                    next_expiration'[u], u)
               IN /\ o.ret = max_balance
                  /\ u \notin DOMAIN o.users]_vars

\* C22: when an update runs a second or more after the trigger of an entry
\* whose user no call has touched since the entry was queued, the update's
\* get_balance for that user finds the balance at max_balance and removes
\* the Entry without queuing a new expiry, for every rate > 0 and every
\* deficit.
C22_MarginCoversRounding ==
    [][(sched_pc = "update" /\ sched_pc' = "idle") =>
         \A u \in DOMAIN next_expiration :
             (/\ next_expiration[u] + RescheduleMarginMs <= sched_now
              /\ u \in DOMAIN users
              /\ next_expiration[u] =
                    users[u].last_balance_update
                      + get_balance_wait(max_balance - users[u].balance,
                                         balance_per_second)) =>
                /\ u \notin DOMAIN users'
                /\ u \notin DOMAIN next_expiration']_vars

\* C23: the actor has at most one timer wake pending at any time, the one
\* its next_run handle names: every reschedule cancels the wake that was
\* pending and leaves only the new one, and an update is started by a timer
\* only for that one pending wake, which is consumed.
C23_OnePendingWake ==
    [][/\ Len(timers') <= 1
       /\ \A i \in 1..Len(timers') : next_run' = {timers'[i]}
       /\ (sched_pc = "update" /\ next_run' # next_run) =>
              timers' = <<(clock - sched_now) + RescheduleMarginMs
                            + next_expiration'[Peek(next_expiration')]>>
       /\ (sched_pc = "idle" /\ sched_pc' = "update" /\ mailbox' = mailbox) =>
              /\ Len(timers) = 1
              /\ next_run = {timers[1]}
              /\ timers[1] <= clock
              /\ timers' = <<>>]_vars

\* a reschedule has cancelled a wake that was pending and set another
\* instant: the new wake is the only one pending
C23_Witness ==
    /\ rearmed \in {"earlier", "later"}
    /\ Len(timers) = 1
    /\ next_run = {timers[1]}

\* C24: with an empty queue the actor sleeps indefinitely: in every state
\* in which next_expiration is empty, no QuotaUpdateMessage is queued and
\* the actor is not inside update, no timer wake is pending.
C24_EmptyQueueNoWake ==
    (next_expiration = EmptyMap /\ mailbox = 0 /\ sched_pc = "idle") =>
        timers = <<>>

\* C25: recomputation is idempotent and a stale expiry is harmless: a
\* get_quota_balance(now, u) that follows a get_quota_balance(now, u) with
\* the same now returns the same balance and leaves the Entry and the expiry
\* of u as they were; a second get_balance applied to the state any get or
\* recompute left, with the same now, returns the same value and changes
\* neither map nor queue; and an update that pops the expiry of a user with
\* no Entry leaves the map unchanged and queues nothing for that user.
C25_Idempotent ==
    [][\A u \in UserIds :
         /\ (/\ hist[u].op = "get"
             /\ hist'[u].op = "get"
             /\ hist'[u].prev_op = "get"
             /\ hist'[u].now = hist[u].now) =>
                /\ hist'[u].ret = hist[u].ret
                /\ Entry(users', u) = Entry(users, u)
                /\ Entry(next_expiration', u) = Entry(next_expiration, u)
         /\ (hist'[u].op \in {"get", "recompute"} /\ hist'[u] # hist[u]) =>
                LET o == get_balance(users', next_expiration', hist'[u].now, u)
                IN /\ ~o.panic
                   /\ o.ret = hist'[u].ret
                   /\ o.users = users'
                   /\ o.exp = next_expiration'
         /\ (/\ sched_pc = "update"
             /\ sched_pc' = "idle"
             /\ u \in DOMAIN next_expiration
             /\ next_expiration[u] < sched_now
             /\ u \notin DOMAIN users) =>
                /\ u \notin DOMAIN users'
                /\ u \notin DOMAIN next_expiration']_vars

\* a get_quota_balance has followed a get_quota_balance with the same now
\* on an Entry that is not full: it returned what the first returned and
\* the Entry holds that balance, stamped now
C25_Witness ==
    \E u \in DOMAIN users :
        /\ hist[u].op = "get"
        /\ hist[u].prev_op = "get"
        /\ hist[u].had
        /\ hist[u].lastget = <<hist[u].ret>>
        /\ hist[u].ret < max_balance
        /\ hist[u].now > 0
        /\ users[u] = [balance |-> hist[u].ret, last_balance_update |-> hist[u].now]

C27_EntryHasExpiry ==
    \A u \in DOMAIN users :
        /\ u \in DOMAIN next_expiration
        /\ balance_per_second > 0
        /\ next_expiration[u] =
              users[u].last_balance_update
                + (1000 * (max_balance - users[u].balance)) \div balance_per_second

\* C28: set_quota_balance and add_quota_balance notify the actor only after
\* they have released the lock: whenever a QuotaUpdateMessage is sent no
\* task holds the lock; each such call sends exactly one message before it
\* returns, and get_quota_balance sends none.
C28_NotifyAfterRelease ==
    [][/\ mailbox' > mailbox => (mailbox' = mailbox + 1 /\ ~LockHeld)
       /\ \A r \in Requests :
             /\ (req[r].pc = "idle" /\ req'[r].pc = "idle") => mailbox' <= mailbox
             /\ (req[r].pc = "locked" /\ req'[r] # req[r]) => mailbox' = mailbox + 1
             /\ (req[r].pc = "sent" /\ req'[r] # req[r]) => mailbox' = mailbox]_vars

\* C29: no quota operation blocks for ever or fails to finish: no task that
\* calls the facade and no run of the actor's update ends without completing
\* its call, that is, none panics on lock().unwrap() or under the lock.
C29_EveryCallCompletes ==
    /\ sched_pc # "panicked"
    /\ \A r \in Requests : req[r].pc # "panicked"

\* C30: spending is local: a step a request takes between its
\* get_quota_balance and its add_quota_balance changes neither users nor
\* next_expiration and sends no message, and when it changes rem_coins it
\* subtracts the amount spent and leaves req_quota alone; the ledger changes
\* on behalf of a request only in the step of its get_quota_balance (pc
\* "open") and of its add_quota_balance (pc "commit").
C30_SpendIsLocal ==
    [][\A r \in Requests :
         /\ (req[r].pc = "exec" /\ req'[r] # req[r]) =>
               /\ UNCHANGED <<users, next_expiration, poisoned, mailbox>>
               /\ req'[r].req_quota = req[r].req_quota
               /\ \/ req'[r].rem_coins = req[r].rem_coins
                  \/ req'[r].rem_coins =
                        AsI64(req[r].rem_coins - REQ_COINS_MODIFIER_DB_QUERY)
                  \/ req'[r].rem_coins =
                        AsI64(req[r].rem_coins - REQ_COINS_MODIFIER_LOGIN)
                  \/ req'[r].pc # "exec"
         /\ (req'[r] # req[r] /\ <<users, next_expiration>>' # <<users, next_expiration>>)
               => req[r].pc \in {"open", "commit"}]_vars

\* a request that read a balance has spent coins and not yet committed:
\* its counter is below the balance it read, and the ledger holds no Entry
C30_Witness ==
    \E r \in Requests :
        /\ req[r].pc = "exec"
        /\ req[r].user \notin AdminIds \cup {NoUser}
        /\ req[r].spends >= 1
        /\ req[r].rem_coins = req[r].req_quota - REQ_COINS_MODIFIER_DB_QUERY
        /\ users = EmptyMap

\* C31: timestamps reach the ledger in order: whenever a request's
\* get_quota_balance or add_quota_balance, or the actor's update, runs for a
\* user that has an Entry, its now is >= the Entry's last_balance_update,
\* and the last_balance_update of a user never moves backward.
C31_TimestampsInOrder ==
    [][/\ \A r \in Requests :
             (/\ req[r].pc \in {"open", "commit"}
              /\ req'[r] # req[r]
              /\ ~poisoned
              /\ req[r].user \in DOMAIN users) =>
                req[r].now >= users[req[r].user].last_balance_update
       /\ (sched_pc = "update" /\ sched_pc' # "update" /\ ~poisoned) =>
             \A u \in Popped(next_expiration, sched_now) \cap DOMAIN users :
                 sched_now >= users[u].last_balance_update
       /\ \A u \in DOMAIN users \cap DOMAIN users' :
             users'[u].last_balance_update >= users[u].last_balance_update]_vars

\* C32: the user debited by a request's add_quota_balance is the user whose
\* balance its get_quota_balance read: a request that has made its
\* add_quota_balance made it for the user it started as, login, logout and
\* change of identity included.
C32_CommitForOpenedUser ==
    \A r \in Requests :
        req[r].commits > 0 => req[r].user = req[r].started_as

\* C33: every update terminates: an expiry that a call with timestamp now
\* queues has its trigger at now or later, so an entry the loop of update
\* re-queues is not popped again: each user whose entry was due at entry to
\* the update is recomputed once, by one get_balance(now, user), and when the
\* update returns no entry with a trigger before now is left.
C33_UpdateTerminates ==
    [][/\ \A u \in UserIds :
             (hist'[u] # hist[u] /\ hist'[u].op # "panicked"
                /\ u \in DOMAIN next_expiration'
                /\ Entry(next_expiration', u) # Entry(next_expiration, u)) =>
                   next_expiration'[u] >= hist'[u].now
       /\ (sched_pc = "update" /\ sched_pc' = "idle") =>
             /\ \A u \in DOMAIN next_expiration' :
                   next_expiration'[u] >= sched_now
             /\ \A u \in Popped(next_expiration, sched_now) :
                   LET o == get_balance(users, Remove(next_expiration, u),
                                        sched_now, u)
                   IN /\ hist'[u].op = "recompute"
                      /\ hist'[u].now = sched_now
                      /\ Entry(users', u) = Entry(o.users, u)
                      /\ Entry(next_expiration', u) = Entry(o.exp, u)
             /\ \A u \in UserIds \ Popped(next_expiration, sched_now) :
                   hist'[u] = hist[u]]_vars

\* an update has popped the entry of a user, recomputed a balance below
\* max_balance and queued the entry again with its trigger at the very now
\* of the update; the update returned
C33_Witness ==
    \E u \in DOMAIN users \cap DOMAIN next_expiration :
        /\ hist[u].op = "recompute"
        /\ sched_pc = "idle"
        /\ users[u].last_balance_update = hist[u].now
        /\ next_expiration[u] = hist[u].now

\* C34: a get_quota_balance, set_quota_balance or add_quota_balance for
\* user u leaves the Entry (balance and last_balance_update) and the queued
\* expiry of every other user as they were before the call: in every step
\* either they are unchanged or the step is no call of the facade for u.
C34_OtherUsersUnchanged ==
    [][\A u \in UserIds :
          \/ \A w \in UserIds \ {u} :
                 /\ Entry(users', w) = Entry(users, w)
                 /\ Entry(next_expiration', w) = Entry(next_expiration, w)
          \/ ~(\/ GetQuotaBalance(u)
               \/ \E v \in SetValues : SetQuotaBalance(u, v)
               \/ \E d \in AddDeltas : AddQuotaBalance(u, d))]_vars

\* both users hold an Entry, stored by calls made at different instants,
\* each with the expiry its own call queued
C34_Witness ==
    /\ DOMAIN users = UserIds
    /\ DOMAIN next_expiration = UserIds
    /\ \E u, v \in UserIds :
          /\ users[u].last_balance_update < users[v].last_balance_update
          /\ users[u].balance # users[v].balance
          /\ \A w \in {u, v} :
                next_expiration[w] =
                    users[w].last_balance_update
                      + get_balance_wait(max_balance - users[w].balance,
                                         balance_per_second)

====
